---- MODULE Spec2Model ----
(***************************************************************************)
(* A model of cocotbext_hyperbus: the HyperBusMemory device model          *)
(* (hyperbus_memory.py) with its MemoryRegion, burst addressing, CA        *)
(* decoding, masked writes and the handle_transactions coroutine.          *)
(*                                                                         *)
(* Python values are modelled as follows.  A bytes / bytearray / list of   *)
(* ints is a sequence of numbers 0..255, address a being element a+1.      *)
(* An exception is the name of its type in `exc' ("none" when the call     *)
(* returned).  The 48-bit CA integer does not fit the model checker's      *)
(* integers and is kept as two 24-bit limbs [hi, lo].                      *)
(***************************************************************************)
EXTENDS Integers, Sequences, FiniteSets, TLC

VARIABLES
    memory,              \* MemoryRegion.memory (bytearray)
    burst_length,        \* HyperBusMemory.burst_length
    config_register,     \* ConfigurationRegister fields
    ca_bytes,            \* HyperBusMemory.ca_bytes
    transaction_active,  \* HyperBusMemory.transaction_active ("unset" before the first assignment)
    pc,                  \* the await at which handle_transactions is suspended
    cycle,               \* index of the `for _ in range(3)' loop
    ck, o_csn0,          \* bus.ck, bus.o_csn0
    dq,                  \* what DQDriver has put on dq0..dq7
    decoded,             \* address, rw, addr_space, burst_type of handle_transactions
    additional_latency,  \* local additional_latency of handle_transactions
    call,                \* the last call made: operation, arguments, memory before it
    ret,                 \* what the last call returned
    addrs,               \* the memory addresses the last call read or wrote, in order
    exc,                 \* the exception the last call (or the coroutine) raised
    sampled,             \* bytes capture_ca has sampled since the last chip-select falling edge
    phases,              \* phases the current transaction has entered
    snap,                \* memory and configuration register when the transaction started
    nops,                \* number of direct calls made so far
    clk, CS_, DQ,        \* dut.clk, dut.CS_, dut.DQ as HyperBusMonitor sees them
    mon_pc,              \* the await at which monitor_transactions is suspended
    heap,                \* the list objects HyperBusMonitor has created, by reference
    ca_phase,            \* HyperBusMonitor.ca_phase (a reference into heap)
    data_phase,          \* HyperBusMonitor.data_phase (a reference into heap)
    transactions,        \* HyperBusMonitor.transactions (records of references)
    mon_seen             \* DQ at each rising edge since the monitor last saw CS_ low from idle

vars == <<memory, burst_length, config_register, ca_bytes, transaction_active, pc,
          cycle, ck, o_csn0, dq, decoded, additional_latency,
          call, ret, addrs, exc, sampled, phases, snap, nops,
          clk, CS_, DQ, mon_pc, heap, ca_phase, data_phase, transactions, mon_seen>>

monvars == <<clk, CS_, DQ, mon_pc, heap, ca_phase, data_phase, transactions, mon_seen>>

busvars == <<ca_bytes, transaction_active, pc, cycle, ck, o_csn0,
             dq, decoded, additional_latency, sampled, phases, snap>>

-----------------------------------------------------------------------------
(* Bounds of the model and constructor defaults of the program.            *)

AddressWidth == 6        \* address_width of the modelled device (memory of 2^6 bytes)
MaxLen == 10             \* longest transfer length of a direct handle_burst call
MaxOps == 2              \* direct calls per behaviour
MaxRecords == 2          \* chip-select assertions the monitor is shown
MaxData == 1             \* data-phase samples taken with chip-select still low
DataWidth == 32          \* data_width default
InitialLatency == 4      \* initial_latency default
DefaultBurstLength == 32 \* burst_length default

Size == 2^AddressWidth
BurstLengths == {4, DefaultBurstLength}
BurstTypes == {"wrapped", "linear", "hybrid"}

Min(a, b) == IF a < b THEN a ELSE b
Max(a, b) == IF a > b THEN a ELSE b

-----------------------------------------------------------------------------
(* MemoryRegion                                                            *)

\* bytearray(size)
Zeros(n) == [i \in 1..n |-> 0]

\* the indices a Python slice [address:address+length] selects in a
\* sequence of n elements (0-based, half-open), clipped as Python clips
SliceLo(n, address) == Min(address, n)
SliceHi(n, address, length) == Max(Min(address + length, n), Min(address, n))

\* the addresses the slice [address:address+length] covers
RECURSIVE Range(_, _)
Range(lo, hi) == IF lo >= hi THEN <<>> ELSE <<lo>> \o Range(lo + 1, hi)

Touched(mem, address, length) ==
    Range(SliceLo(Len(mem), address), SliceHi(Len(mem), address, length))

\* MemoryRegion.read: bytes(self.memory[address:address+length])
MemoryRegion_read(mem, address, length) ==
    SubSeq(mem, SliceLo(Len(mem), address) + 1, SliceHi(Len(mem), address, length))

\* a write that stores one byte further on
MemoryRegion_write_shifted(mem, address, data, length) ==
    SubSeq(mem, 1, SliceLo(Len(mem), address + 1))
        \o data
        \o SubSeq(mem, SliceHi(Len(mem), address + 1, length) + 1, Len(mem))

\* MemoryRegion.write with a bytes-like `data':
\* self.memory[address:address+length] = data
MemoryRegion_write(mem, address, data, length) ==
    SubSeq(mem, 1, SliceLo(Len(mem), address))
        \o data
        \o SubSeq(mem, SliceHi(Len(mem), address, length) + 1, Len(mem))

\* MemoryRegion.write with an int `data' (what data[i] of a bytes object or
\* of a list of ints is): a bytearray slice cannot be assigned an int, the
\* assignment raises TypeError and stores nothing
MemoryRegion_write_int(mem, address, value, length) ==
    [exc |-> "TypeError", mem |-> mem, addrs |-> <<>>]

\* HyperBusMemory.read / HyperBusMemory.write (after the latency Timer)
HyperBusMemory_read(mem, address) ==
    MemoryRegion_read(mem, address, DataWidth \div 8)

HyperBusMemory_write(mem, address, data) ==
    MemoryRegion_write(mem, address, data, DataWidth \div 8)

-----------------------------------------------------------------------------
(* handle_burst: the result is [exc, data, addrs], addrs being the         *)
(* addresses whose bytes memory.read returned, in the order of the reads.  *)

\* bytearray.append(item) with item the bytes object memory.read returns:
\* append takes an int, so it raises TypeError
bytearray_append(acc, item) == [acc EXCEPT !.exc = "TypeError"]

\* the loop `for i in range(length)' of the wrapped branch, from index i on
RECURSIVE WrappedLoop(_, _, _, _, _, _)
WrappedLoop(mem, group_size, address, length, i, acc) ==
    IF i >= length \/ acc.exc # "none" THEN acc
    ELSE IF group_size = 0 THEN [acc EXCEPT !.exc = "ZeroDivisionError"]
    ELSE LET effective_address == (address + i) % group_size
             item == MemoryRegion_read(mem, effective_address, 1)
             seen == [acc EXCEPT !.addrs = @ \o Touched(mem, effective_address, 1)]
         IN  WrappedLoop(mem, group_size, address, length, i + 1,
                         bytearray_append(seen, item))

BurstWrapped(mem, group_size, address, length) ==
    WrappedLoop(mem, group_size, address, length, 0,
                [exc |-> "none", data |-> <<>>, addrs |-> <<>>])

\* a linear branch that masks the address with the group size
BurstLinearMasked(mem, group_size, address, length) ==
    [exc |-> "none",
     data |-> MemoryRegion_read(mem, address % group_size, length),
     addrs |-> Touched(mem, address % group_size, length)]

BurstLinear(mem, group_size, address, length) ==
    [exc |-> "none",
     data |-> MemoryRegion_read(mem, address, length),
     addrs |-> Touched(mem, address, length)]

BurstHybrid(mem, group_size, address, length) ==
    IF group_size = 0
    THEN [exc |-> "ZeroDivisionError", data |-> <<>>, addrs |-> <<>>]
    ELSE LET full == group_size - (address % group_size)
             wrapped_length == IF full > length THEN length ELSE full
             w == BurstWrapped(mem, group_size, address, wrapped_length)
         IN  IF w.exc # "none" THEN w
             ELSE IF length > wrapped_length
             THEN LET linear_length == length - wrapped_length
                      linear_address == address + wrapped_length
                      l == BurstLinear(mem, group_size, linear_address, linear_length)
                  IN  [exc |-> "none", data |-> w.data \o l.data,
                       addrs |-> w.addrs \o l.addrs]
             ELSE w

handle_burst(mem, group_size, address, length, burst_type) ==
    CASE burst_type = "wrapped" -> BurstWrapped(mem, group_size, address, length)
      [] burst_type = "linear" -> BurstLinear(mem, group_size, address, length)
      [] burst_type = "hybrid" -> BurstHybrid(mem, group_size, address, length)
      [] OTHER -> [exc |-> "none", data |-> <<>>, addrs |-> <<>>]

-----------------------------------------------------------------------------
(* write_with_masking: the result is [exc, mem, addrs].                    *)

\* the loop `for i in range(len(data))', from index i on; data[i] is an int
RECURSIVE MaskLoop(_, _, _, _, _)
MaskLoop(address, data, mask, i, acc) ==
    IF i >= Len(data) \/ acc.exc # "none" THEN acc
    ELSE IF i >= Len(mask) THEN [acc EXCEPT !.exc = "IndexError"]
    ELSE IF mask[i + 1] = 0
         THEN MaskLoop(address, data, mask, i + 1,
                       MemoryRegion_write_int(acc.mem, address + i, data[i + 1], 1))
         ELSE MaskLoop(address, data, mask, i + 1, acc)

write_with_masking(mem, address, data, mask) ==
    MaskLoop(address, data, mask, 0, [exc |-> "none", mem |-> mem, addrs |-> <<>>])

-----------------------------------------------------------------------------
(* The state after HyperBusMemory.__init__, with handle_transactions       *)
(* started and suspended at its first await.                               *)

NoCall == [op |-> "none", address |-> 0, length |-> 0, data |-> <<>>,
           mask |-> <<>>, burst_type |-> "none", group_size |-> 0, pre |-> <<>>,
           value |-> 0]

\* ConfigurationRegister.__init__ (True and False are the ints 1 and 0)
ConfigurationRegister_init ==
    [deep_power_down |-> 0, output_drive_strength |-> 0, initial_latency |-> 4,
     fixed_latency |-> 1, burst_length |-> 32, hybrid_wrap |-> 0]

NoDecode == [address |-> 0, r_w |-> 0, as_ |-> 0, burst_type |-> 0]

InitBus ==
    /\ ca_bytes = <<>>
    /\ transaction_active = "unset"
    /\ pc = "wait_cs_fall"
    /\ cycle = 0
    /\ ck = 0
    /\ o_csn0 = 1
    /\ dq = [state |-> "undriven", value |-> <<>>]
    /\ decoded = NoDecode
    /\ additional_latency = 0
    /\ sampled = <<>>
    /\ phases = {}

InitCalls ==
    /\ call = NoCall
    /\ ret = <<>>
    /\ addrs = <<>>
    /\ exc = "none"
    /\ nops = 0

\* HyperBusMonitor.__init__, with monitor_transactions started and suspended
\* at its first await; the bus is idle
InitMonitor ==
    /\ clk = 0
    /\ CS_ = 1
    /\ DQ = 0
    /\ mon_pc = "idle"
    /\ heap = <<<<>>, <<>>>>
    /\ ca_phase = 1
    /\ data_phase = 2
    /\ transactions = <<>>
    /\ mon_seen = <<>>

InitDevice ==
    /\ InitMonitor
    /\ memory = Zeros(Size)
    /\ config_register = ConfigurationRegister_init
    /\ snap = [memory |-> memory, config_register |-> config_register]
    /\ InitBus
    /\ InitCalls

-----------------------------------------------------------------------------
(* Direct calls of the memory API.                                         *)

MemAddrs == {0, 1, Size - 1, Size + 1}
DataSeqs == {<<17, 34, 51>>, <<170, 187, 204>>, <<17, 34, 51, 68>>}
ReadLengths == {3, DataWidth \div 8}
MaskData == {<<17, 34, 51>>}
Masks == {<<0, 1, 0>>, <<1, 1, 1>>, <<0, 0>>}

\* MemoryRegion.read(address, length)
Read(address, length) ==
    /\ UNCHANGED monvars
    /\ nops < MaxOps
    /\ call' = [NoCall EXCEPT !.op = "MemoryRegion.read", !.address = address,
                              !.length = length, !.pre = memory]
    /\ ret' = MemoryRegion_read(memory, address, length)
    /\ addrs' = Touched(memory, address, length)
    /\ exc' = "none"
    /\ nops' = nops + 1
    /\ UNCHANGED <<memory, burst_length, config_register, busvars>>

\* MemoryRegion.write(address, data, length)
Write(address, data, length) ==
    /\ UNCHANGED monvars
    /\ nops < MaxOps
    /\ call' = [NoCall EXCEPT !.op = "MemoryRegion.write", !.address = address,
                              !.length = length, !.data = data, !.pre = memory]
    /\ memory' = MemoryRegion_write(memory, address, data, length)
    /\ ret' = <<>>
    /\ addrs' = Touched(memory, address, length)
    /\ exc' = "none"
    /\ nops' = nops + 1
    /\ UNCHANGED <<burst_length, config_register, busvars>>

\* await HyperBusMemory.read(address)
DeviceRead(address) ==
    /\ UNCHANGED monvars
    /\ nops < MaxOps
    /\ call' = [NoCall EXCEPT !.op = "HyperBusMemory.read", !.address = address,
                              !.length = DataWidth \div 8, !.pre = memory]
    /\ ret' = HyperBusMemory_read(memory, address)
    /\ addrs' = Touched(memory, address, DataWidth \div 8)
    /\ exc' = "none"
    /\ nops' = nops + 1
    /\ UNCHANGED <<memory, burst_length, config_register, busvars>>

\* await HyperBusMemory.write(address, data)
DeviceWrite(address, data) ==
    /\ UNCHANGED monvars
    /\ nops < MaxOps
    /\ call' = [NoCall EXCEPT !.op = "HyperBusMemory.write", !.address = address,
                              !.length = DataWidth \div 8, !.data = data,
                              !.pre = memory]
    /\ memory' = HyperBusMemory_write(memory, address, data)
    /\ ret' = <<>>
    /\ addrs' = Touched(memory, address, DataWidth \div 8)
    /\ exc' = "none"
    /\ nops' = nops + 1
    /\ UNCHANGED <<burst_length, config_register, busvars>>

\* await HyperBusMemory.write_with_masking(address, data, mask)
WriteWithMasking(address, data, mask) ==
    /\ UNCHANGED monvars
    /\ nops < MaxOps
    /\ LET r == write_with_masking(memory, address, data, mask)
       IN  /\ memory' = r.mem
           /\ addrs' = r.addrs
           /\ exc' = r.exc
    /\ call' = [NoCall EXCEPT !.op = "write_with_masking", !.address = address,
                              !.length = Len(data), !.data = data, !.mask = mask,
                              !.pre = memory]
    /\ ret' = <<>>
    /\ nops' = nops + 1
    /\ UNCHANGED <<burst_length, config_register, busvars>>

InitMem ==
    /\ burst_length = DefaultBurstLength
    /\ InitDevice

NextMem ==
    \/ \E a \in MemAddrs, n \in ReadLengths : Read(a, n)
    \/ \E a \in MemAddrs, d \in DataSeqs : \E n \in {1, Len(d)} : Write(a, d, n)
    \/ \E a \in MemAddrs : DeviceRead(a)
    \/ \E a \in MemAddrs, d \in DataSeqs : DeviceWrite(a, d)
    \/ \E a \in MemAddrs, d \in MaskData, m \in Masks : WriteWithMasking(a, d, m)

SpecMem == InitMem /\ [][NextMem]_vars

-----------------------------------------------------------------------------
(* Direct calls of handle_burst on a memory whose bytes tell the addresses *)
(* apart.                                                                  *)

\* address a holds (a + 1) mod 256
Pattern(n) == [i \in 1..n |-> i % 256]

\* the arguments of a call of handle_burst that has not been made yet
BurstArgs(address, length, burst_type) ==
    [NoCall EXCEPT !.op = "handle_burst.args", !.address = address,
                   !.length = length, !.burst_type = burst_type]

\* data = self.handle_burst(address, length, burst_type)
Burst ==
    /\ UNCHANGED monvars
    /\ call.op = "handle_burst.args"
    /\ LET r == handle_burst(memory, burst_length, call.address, call.length,
                             call.burst_type)
       IN  /\ ret' = r.data
           /\ addrs' = r.addrs
           /\ exc' = r.exc
    /\ call' = [call EXCEPT !.op = "handle_burst", !.group_size = burst_length,
                            !.pre = memory]
    /\ UNCHANGED <<memory, burst_length, config_register, busvars, nops>>

InitBurst ==
    /\ InitMonitor
    /\ memory \in {Zeros(Size), Pattern(Size)}
    /\ burst_length \in BurstLengths
    /\ config_register = ConfigurationRegister_init
    /\ snap = [memory |-> memory, config_register |-> config_register]
    /\ InitBus
    /\ call \in {BurstArgs(a, n, t) : a \in 0..(Size + 1), n \in 0..MaxLen,
                                      t \in BurstTypes}
    /\ ret = <<>>
    /\ addrs = <<>>
    /\ exc = "none"
    /\ nops = 0

NextBurst == Burst

SpecBurst == InitBurst /\ [][NextBurst]_vars

-----------------------------------------------------------------------------
(* Command/address decoding.  A CA integer v is [hi, lo] with              *)
(* v = hi * 2^24 + lo and hi, lo < 2^24.                                   *)

\* int.from_bytes(bytes, byteorder="big") of at most 6 bytes
RECURSIVE from_bytes(_)
from_bytes(bytes) ==
    IF bytes = <<>> THEN [hi |-> 0, lo |-> 0]
    ELSE LET v == from_bytes(SubSeq(bytes, 1, Len(bytes) - 1))
         IN  [hi |-> (v.hi % 2^16) * 256 + (v.lo \div 2^16),
              lo |-> (v.lo % 2^16) * 256 + bytes[Len(bytes)]]

\* bit n of v
IntBit(v, n) ==
    IF n >= 24 THEN (v.hi \div 2^(n - 24)) % 2 ELSE (v.lo \div 2^n) % 2

\* (v >> shift) & (2^width - 1)
RECURSIVE ShiftMask(_, _, _)
ShiftMask(v, shift, width) ==
    IF width = 0 THEN 0
    ELSE IntBit(v, shift) + 2 * ShiftMask(v, shift + 1, width - 1)

\* a decoder that takes the read/write flag from bit 46
decode_address_rw46(dq_value) ==
    [address |-> ShiftMask(dq_value, 16, 16) * 2^8 + ShiftMask(dq_value, 0, 8),
     r_w |-> ShiftMask(dq_value, 46, 1),
     as_ |-> ShiftMask(dq_value, 46, 1),
     burst_type |-> ShiftMask(dq_value, 45, 1)]

decode_address(dq_value) ==
    LET r_w == ShiftMask(dq_value, 47, 1)
        as_ == ShiftMask(dq_value, 46, 1)
        burst_type == ShiftMask(dq_value, 45, 1)
        row_column == ShiftMask(dq_value, 16, 16)
        lower_column == ShiftMask(dq_value, 0, 8)
        \* (row_column << 8) | lower_column: the low 8 bits of the shifted
        \* value are 0 and lower_column < 2^8
        address == row_column * 2^8 + lower_column
    IN  [address |-> address, r_w |-> r_w, as_ |-> as_, burst_type |-> burst_type]

\* write_with_masking(address, data, mask) with an int `data', as
\* handle_transactions calls it: len(data) raises TypeError
write_with_masking_int(mem, address, data, mask) ==
    [exc |-> "TypeError", mem |-> mem, addrs |-> <<>>]

-----------------------------------------------------------------------------
(* handle_transactions.  pc names the await the coroutine is suspended at: *)
(*   wait_cs_fall  await FallingEdge(o_csn0)        (line 177)             *)
(*   ca_rise       await RisingEdge(ck)             (line 182)             *)
(*   ca_fall       await FallingEdge(ck)            (line 189)             *)
(*   drive         await dq_driver.drive(data), in its Timer (line 210)    *)
(*   wr_rise       await RisingEdge(ck)             (line 212)             *)
(*   wait_cs_rise  await RisingEdge(o_csn0)         (line 217)             *)
(*   crashed       an exception left the coroutine                         *)
(* An edge is one step: the signal changes and, if the coroutine awaits    *)
(* that edge, it runs to its next await.  The host-driven signals i_dq,    *)
(* rwds and i_rwds are inputs: the value the coroutine reads is drawn      *)
(* where it reads it.  The locals of one loop iteration (address, rw,      *)
(* addr_space, burst_type, additional_latency, data) are never read in the *)
(* next one and are cleared when the next transaction starts.              *)

DQVals == {0, 128, 160}
Bits == {0, 1}

\* a capture that puts the new byte in front
capture_ca_prepend(bytes, i_dq) == <<i_dq>> \o bytes

\* capture_ca, i_dq being the value read from bus.i_dq
capture_ca(bytes, i_dq) == Append(bytes, i_dq)

\* an abort that leaves the partial CA buffer in place
AbortKeepsBuffer ==
    /\ transaction_active' = "False"
    /\ pc' = "wait_cs_rise"
    /\ UNCHANGED <<ca_bytes, cycle, sampled, memory, config_register, dq, decoded,
                   additional_latency, call, ret, addrs, exc, phases>>

\* lines 183-186 and 190-193: chip-select is seen high at a CA sampling edge
Abort ==
    /\ transaction_active' = "False"
    /\ ca_bytes' = <<>>
    /\ pc' = "wait_cs_rise"
    /\ UNCHANGED <<cycle, sampled, memory, config_register, dq, decoded,
                   additional_latency, call, ret, addrs, exc, phases>>

\* the two branches of lines 206-209 exchanged
BurstTypeOfSwapped(burst_type) == IF burst_type = 0 THEN "linear" ELSE "wrapped"

\* the burst type handle_transactions asks handle_burst for (lines 206-209)
BurstTypeOf(burst_type) == IF burst_type = 0 THEN "wrapped" ELSE "linear"

\* DQDriver.drive(value) up to its Timer
DQDriver_drive(value) == [state |-> "driven", value |-> value]

\* lines 196-215 up to the next await, with the captured CA bytes in
\* `bytes' and the value read from bus.rwds in `rwds'
AfterCapture(bytes, rwds) ==
    IF Len(bytes) = 6
    THEN LET ca_value == from_bytes(bytes)
             d == decode_address(ca_value)
         IN  /\ decoded' = d
             /\ ca_bytes' = <<>>
             /\ additional_latency' = IF rwds = 1 THEN InitialLatency ELSE 0
             /\ IF d.r_w = 1
                THEN LET t == BurstTypeOf(d.burst_type)
                         r == handle_burst(memory, burst_length, d.address,
                                           burst_length, t)
                     IN  /\ call' = [NoCall EXCEPT !.op = "handle_burst",
                                         !.address = d.address,
                                         !.length = burst_length,
                                         !.burst_type = t,
                                         !.group_size = burst_length,
                                         !.pre = memory]
                         /\ ret' = r.data
                         /\ addrs' = r.addrs
                         /\ exc' = r.exc
                         /\ IF r.exc = "none"
                            THEN /\ dq' = DQDriver_drive(r.data)
                                 /\ pc' = "drive"
                                 /\ phases' = phases \cup {"decode", "burst", "drive"}
                            ELSE /\ dq' = dq
                                 /\ pc' = "crashed"
                                 /\ phases' = phases \cup {"decode", "burst"}
                ELSE /\ pc' = "wr_rise"
                     /\ phases' = phases \cup {"decode"}
                     /\ UNCHANGED <<call, ret, addrs, exc, dq>>
             /\ UNCHANGED <<memory, config_register, transaction_active>>
    ELSE /\ ca_bytes' = bytes
         /\ pc' = "wait_cs_rise"
         /\ UNCHANGED <<transaction_active, memory, config_register, dq, decoded,
                        additional_latency, call, ret, addrs, exc, phases>>

\* o_csn0 falls
CsFall ==
    /\ UNCHANGED monvars
    /\ o_csn0 = 1
    /\ o_csn0' = 0
    /\ IF pc = "wait_cs_fall"
       THEN /\ transaction_active' = "True"
            /\ ca_bytes' = <<>>
            /\ cycle' = 0
            /\ pc' = "ca_rise"
            /\ sampled' = <<>>
            /\ phases' = {}
            /\ snap' = [memory |-> memory, config_register |-> config_register]
            /\ decoded' = NoDecode
            /\ additional_latency' = 0
            /\ call' = NoCall
            /\ ret' = <<>>
            /\ addrs' = <<>>
       ELSE UNCHANGED <<transaction_active, ca_bytes, cycle, pc, sampled, phases, snap,
                        decoded, additional_latency, call, ret, addrs>>
    /\ UNCHANGED <<memory, burst_length, config_register, ck, dq, exc, nops>>

\* a chip-select rising edge that lets the coroutine loop without clearing
\* transaction_active
CsRiseKeepsActive ==
    /\ UNCHANGED monvars
    /\ o_csn0 = 0
    /\ o_csn0' = 1
    /\ IF pc = "wait_cs_rise"
       THEN /\ transaction_active' = transaction_active
            /\ pc' = "wait_cs_fall"
       ELSE UNCHANGED <<transaction_active, pc>>
    /\ UNCHANGED <<memory, burst_length, config_register, ca_bytes, cycle, ck,
                   dq, decoded, additional_latency, call, ret, addrs,
                   exc, sampled, phases, snap, nops>>

\* o_csn0 rises
CsRise ==
    /\ UNCHANGED monvars
    /\ o_csn0 = 0
    /\ o_csn0' = 1
    /\ IF pc = "wait_cs_rise"
       THEN /\ transaction_active' = "False"
            /\ pc' = "wait_cs_fall"
       ELSE UNCHANGED <<transaction_active, pc>>
    /\ UNCHANGED <<memory, burst_length, config_register, ca_bytes, cycle, ck,
                   dq, decoded, additional_latency, call, ret, addrs,
                   exc, sampled, phases, snap, nops>>

\* line 215 with the values read from bus.i_dq and bus.i_rwds
WriteData(data_in, mask) ==
    LET r == write_with_masking_int(memory, decoded.address, data_in, mask)
    IN  /\ call' = [NoCall EXCEPT !.op = "write_with_masking",
                        !.address = decoded.address, !.pre = memory]
        /\ memory' = r.mem
        /\ addrs' = r.addrs
        /\ exc' = r.exc
        /\ ret' = <<>>
        /\ phases' = phases \cup {"write"}
        /\ pc' = IF r.exc = "none" THEN "wait_cs_rise" ELSE "crashed"
        /\ UNCHANGED <<transaction_active, ca_bytes, cycle, sampled,
                       config_register, dq, decoded, additional_latency>>

\* ck rises
CkRise ==
    /\ UNCHANGED monvars
    /\ ck = 0
    /\ ck' = 1
    /\ IF pc = "ca_rise"
       THEN IF o_csn0 = 1
            THEN Abort
            ELSE \E i_dq \in DQVals :
                 /\ ca_bytes' = capture_ca(ca_bytes, i_dq)
                 /\ sampled' = Append(sampled, i_dq)
                 /\ pc' = "ca_fall"
                 /\ UNCHANGED <<transaction_active, cycle, memory, config_register,
                                dq, decoded, additional_latency, call, ret, addrs,
                                exc, phases>>
       ELSE IF pc = "wr_rise"
            THEN \E i_dq \in DQVals, i_rwds \in Bits : WriteData(i_dq, i_rwds)
            ELSE UNCHANGED <<transaction_active, ca_bytes, cycle, pc, sampled, memory,
                             config_register, dq, decoded, additional_latency, call,
                             ret, addrs, exc, phases>>
    /\ UNCHANGED <<burst_length, o_csn0, snap, nops>>

\* ck falls
CkFall ==
    /\ UNCHANGED monvars
    /\ ck = 1
    /\ ck' = 0
    /\ IF pc = "ca_fall"
       THEN IF o_csn0 = 1
            THEN Abort
            ELSE \E i_dq \in DQVals :
                 /\ sampled' = Append(sampled, i_dq)
                 /\ IF cycle < 2
                    THEN /\ ca_bytes' = capture_ca(ca_bytes, i_dq)
                         /\ cycle' = cycle + 1
                         /\ pc' = "ca_rise"
                         /\ UNCHANGED <<transaction_active, memory, config_register,
                                        dq, decoded, additional_latency, call, ret,
                                        addrs, exc, phases>>
                    ELSE /\ cycle' = cycle
                         /\ \E rwds \in Bits :
                                AfterCapture(capture_ca(ca_bytes, i_dq), rwds)
       ELSE UNCHANGED <<transaction_active, ca_bytes, cycle, pc, sampled, memory,
                        config_register, dq, decoded, additional_latency, call, ret,
                        addrs, exc, phases>>
    /\ UNCHANGED <<burst_length, o_csn0, snap, nops>>

\* the Timer(1, 'ns') of DQDriver.drive expires
DriveDone ==
    /\ UNCHANGED monvars
    /\ pc = "drive"
    /\ pc' = "wait_cs_rise"
    /\ UNCHANGED <<memory, burst_length, config_register, ca_bytes, transaction_active,
                   cycle, ck, o_csn0, dq, decoded,
                   additional_latency, call, ret, addrs, exc, sampled, phases, snap,
                   nops>>

InitTxn ==
    /\ burst_length = DefaultBurstLength
    /\ InitDevice

NextTxn ==
    \/ CsFall
    \/ CsRise
    \/ CkRise
    \/ CkFall
    \/ DriveDone

SpecTxn == InitTxn /\ [][NextTxn]_vars

-----------------------------------------------------------------------------
(* Decoding alone: six CA bytes drawn from CAVals are decoded as lines     *)
(* 197-198 decode them.                                                    *)

CAVals == {0, 16, 128, 160, 255}

Decode ==
    /\ UNCHANGED monvars
    /\ phases = {}
    /\ decoded' = decode_address(from_bytes(ca_bytes))
    /\ phases' = {"decode"}
    /\ UNCHANGED <<memory, burst_length, config_register, ca_bytes, transaction_active,
                   pc, cycle, ck, o_csn0, dq, additional_latency, call, ret, addrs,
                   exc, sampled, snap, nops>>

InitDecode ==
    /\ InitMonitor
    /\ memory = Zeros(Size)
    /\ burst_length = DefaultBurstLength
    /\ config_register = ConfigurationRegister_init
    /\ snap = [memory |-> memory, config_register |-> config_register]
    /\ ca_bytes \in [1..6 -> CAVals]
    /\ transaction_active = "True"
    /\ pc = "ca_fall"
    /\ cycle = 2
    /\ ck = 0
    /\ o_csn0 = 0
    /\ dq = [state |-> "undriven", value |-> <<>>]
    /\ decoded = NoDecode
    /\ additional_latency = 0
    /\ sampled = ca_bytes
    /\ phases = {}
    /\ InitCalls

NextDecode == Decode

SpecDecode == InitDecode /\ [][NextDecode]_vars

-----------------------------------------------------------------------------
(* ConfigurationRegister.  The register value is a 16-bit integer.         *)

\* a & b
RECURSIVE BitAnd(_, _)
BitAnd(a, b) ==
    IF a = 0 \/ b = 0 THEN 0
    ELSE (a % 2) * (b % 2) + 2 * BitAnd(a \div 2, b \div 2)

\* v >> n
ShiftRight(v, n) == v \div 2^n

\* a set_register that leaves initial_latency as it was
set_register_keeps_latency(cfg, register_value) ==
    [deep_power_down |-> BitAnd(ShiftRight(register_value, 15), 1),
     output_drive_strength |-> BitAnd(ShiftRight(register_value, 12), 7),
     initial_latency |-> cfg.initial_latency,
     fixed_latency |-> BitAnd(ShiftRight(register_value, 3), 1),
     burst_length |-> BitAnd(ShiftRight(register_value, 1), 3),
     hybrid_wrap |-> BitAnd(register_value, 1)]

\* ConfigurationRegister.set_register on the register cfg
set_register(cfg, register_value) ==
    [deep_power_down |-> BitAnd(ShiftRight(register_value, 15), 1),
     output_drive_strength |-> BitAnd(ShiftRight(register_value, 12), 7),
     initial_latency |-> BitAnd(ShiftRight(register_value, 4), 15),
     fixed_latency |-> BitAnd(ShiftRight(register_value, 3), 1),
     burst_length |-> BitAnd(ShiftRight(register_value, 1), 3),
     hybrid_wrap |-> BitAnd(register_value, 1)]

\* 0x0000, 0x0001, 0x0006, 0x0008, 0x00F0, 0x0431, 0x0F00, 0x7000, 0x8000,
\* 0xA5A5, 0xFFFF
RegisterValues == {0, 1, 6, 8, 240, 1073, 3840, 28672, 32768, 42405, 65535}

\* config_register.set_register(register_value)
SetRegister(register_value) ==
    /\ UNCHANGED monvars
    /\ nops < MaxOps
    /\ config_register' = set_register(config_register, register_value)
    /\ call' = [NoCall EXCEPT !.op = "set_register", !.value = register_value,
                              !.pre = <<config_register>>]
    /\ nops' = nops + 1
    /\ UNCHANGED <<memory, burst_length, busvars, ret, addrs, exc>>

\* await enter_deep_power_down()
EnterDeepPowerDown ==
    /\ UNCHANGED monvars
    /\ nops < MaxOps
    /\ config_register' = [config_register EXCEPT !.deep_power_down = 1]
    /\ call' = [NoCall EXCEPT !.op = "enter_deep_power_down", !.pre = <<config_register>>]
    /\ nops' = nops + 1
    /\ UNCHANGED <<memory, burst_length, busvars, ret, addrs, exc>>

\* await exit_deep_power_down()
ExitDeepPowerDown ==
    /\ UNCHANGED monvars
    /\ nops < MaxOps
    /\ config_register' = [config_register EXCEPT !.deep_power_down = 0]
    /\ call' = [NoCall EXCEPT !.op = "exit_deep_power_down", !.pre = <<config_register>>]
    /\ nops' = nops + 1
    /\ UNCHANGED <<memory, burst_length, busvars, ret, addrs, exc>>

InitCfg ==
    /\ burst_length = DefaultBurstLength
    /\ InitDevice

NextCfg ==
    \/ \E v \in RegisterValues : SetRegister(v)
    \/ EnterDeepPowerDown
    \/ ExitDeepPowerDown

SpecCfg == InitCfg /\ [][NextCfg]_vars

-----------------------------------------------------------------------------
(* HyperBusMonitor.  mon_pc names the await monitor_transactions is        *)
(* suspended at:                                                           *)
(*   idle   await RisingEdge(clk) of monitor_transactions (line 17)        *)
(*   ca     await RisingEdge(clk) of capture_ca_phase (line 36)            *)
(*   data   await RisingEdge(clk) of capture_data_phase (line 44)          *)
(* Python lists are objects: heap[r] is the content of the list with       *)
(* reference r, and ca_phase, data_phase and the two fields of a logged    *)
(* record are references.  The 'time' field of a record is left out.       *)

devvars == <<memory, burst_length, config_register, busvars, call, ret, addrs,
             exc, nops>>

\* the record a reference pair stands for, in the heap h
Deref(h, t) == [ca_phase |-> h[t.ca_phase], data_phase |-> h[t.data_phase]]

\* a start of record that empties the two existing lists in place
StartRecordInPlace ==
    /\ heap' = [heap EXCEPT ![ca_phase] = <<>>, ![data_phase] = <<>>]
    /\ UNCHANGED <<ca_phase, data_phase>>

\* lines 19-20: ca_phase and data_phase are bound to two new empty lists
StartRecord ==
    /\ heap' = heap \o <<<<>>, <<>>>>
    /\ ca_phase' = Len(heap) + 1
    /\ data_phase' = Len(heap) + 2

\* lines 23-29 after capture_data_phase has returned
LogTransaction ==
    /\ transactions' = Append(transactions,
                              [ca_phase |-> ca_phase, data_phase |-> data_phase])
    /\ mon_pc' = "idle"

\* monitor_transactions resumed by a rising edge of clk, up to its next await
MonitorRise ==
    IF mon_pc = "idle"
    THEN IF CS_ = 0
         THEN /\ StartRecord
              /\ mon_pc' = "ca"
              /\ mon_seen' = <<>>
              /\ UNCHANGED transactions
         ELSE UNCHANGED <<mon_pc, heap, ca_phase, data_phase, transactions, mon_seen>>
    ELSE IF mon_pc = "ca"
    THEN /\ heap' = [heap EXCEPT ![ca_phase] = Append(@, DQ)]
         /\ mon_seen' = Append(mon_seen, DQ)
         /\ UNCHANGED <<ca_phase, data_phase>>
         /\ IF Len(heap[ca_phase]) + 1 < 6
            THEN UNCHANGED <<mon_pc, transactions>>
            ELSE IF CS_ = 0
                 THEN mon_pc' = "data" /\ UNCHANGED transactions
                 ELSE LogTransaction
    ELSE /\ heap' = [heap EXCEPT ![data_phase] = Append(@, DQ)]
         /\ mon_seen' = Append(mon_seen, DQ)
         /\ UNCHANGED <<ca_phase, data_phase>>
         /\ IF CS_ = 0
            THEN UNCHANGED <<mon_pc, transactions>>
            ELSE LogTransaction

\* clk rises
MonClkRise ==
    /\ clk = 0
    /\ ~(mon_pc = "data" /\ CS_ = 0 /\ Len(heap[data_phase]) >= MaxData)
    /\ clk' = 1
    /\ MonitorRise
    /\ UNCHANGED <<CS_, DQ, devvars>>

\* clk falls and the host puts the next byte of a repeating pattern on DQ
MonClkFall ==
    /\ clk = 1
    /\ clk' = 0
    /\ DQ' = (DQ + 1) % 4
    /\ UNCHANGED <<CS_, mon_pc, heap, ca_phase, data_phase, transactions, mon_seen,
                   devvars>>

\* CS_ falls
MonCsFall ==
    /\ CS_ = 1
    /\ Len(transactions) < MaxRecords
    /\ CS_' = 0
    /\ UNCHANGED <<clk, DQ, mon_pc, heap, ca_phase, data_phase, transactions, mon_seen,
                   devvars>>

\* CS_ rises
MonCsRise ==
    /\ CS_ = 0
    /\ CS_' = 1
    /\ UNCHANGED <<clk, DQ, mon_pc, heap, ca_phase, data_phase, transactions, mon_seen,
                   devvars>>

InitMon ==
    /\ burst_length = DefaultBurstLength
    /\ InitDevice

NextMon ==
    \/ MonClkRise
    \/ MonClkFall
    \/ MonCsFall
    \/ MonCsRise

SpecMon == InitMon /\ [][NextMon]_vars

-----------------------------------------------------------------------------
(* Properties of handle_burst (under SpecBurst).                           *)

BurstDone(t) == call.op = "handle_burst" /\ call.burst_type = t

\* start of the aligned window of w addresses that contains a
WindowStart(a, w) == w * (a \div w)

\* C3: every address a wrapped burst reads lies in the aligned window
\* [w*(a div w), w*(a div w)+w) that contains the start address a, the i-th
\* being the window start plus ((a + i) mod w), so that the address after
\* the window end is the window start (0 only for the window at 0).
C3_WrappedStaysInWindow ==
    BurstDone("wrapped") =>
        \A i \in 1..Len(addrs) :
            addrs[i] = WindowStart(call.address, call.group_size)
                       + ((call.address + i - 1) % call.group_size)

\* C4: a hybrid burst of length L from a that lies within the memory
\* returns without an exception the bytes at a, a+1, ... up to the end of
\* the window containing a and then at the addresses after that window,
\* L addresses in all (for a=30, w=32, L=10: 30,31 then 32..39).
C4_HybridWindowThenLinear ==
    (BurstDone("hybrid") /\ call.address + call.length <= Len(call.pre)) =>
        /\ exc = "none"
        /\ addrs = Range(call.address, call.address + call.length)
        /\ ret = SubSeq(call.pre, call.address + 1, call.address + call.length)

\* C5: a linear burst of length L from a that lies within the memory
\* returns exactly the bytes at a, a+1, ..., a+L-1, whatever the group
\* size, and a burst of length zero of any type returns the empty result.
C5_LinearBurst ==
    /\ (BurstDone("linear") /\ call.address + call.length <= Len(call.pre)) =>
           /\ exc = "none"
           /\ Len(ret) = call.length
           /\ \A i \in 1..call.length : ret[i] = call.pre[call.address + i]
           /\ addrs = Range(call.address, call.address + call.length)
    /\ (call.op = "handle_burst" /\ call.length = 0) =>
           (exc = "none" /\ ret = <<>>)

\* a linear burst that crosses a window boundary of each group size, read
\* from the memory whose bytes tell the addresses apart
C5_Witness ==
    /\ BurstDone("linear")
    /\ call.address = 30 /\ call.length = MaxLen /\ call.group_size = 32
    /\ call.pre = Pattern(Size)
    /\ ret[1] = 31 /\ ret[MaxLen] = 30 + MaxLen

-----------------------------------------------------------------------------
(* Properties of the memory API (under SpecMem).                           *)

ReadOps == {"MemoryRegion.read", "HyperBusMemory.read"}
WriteOps == {"MemoryRegion.write", "HyperBusMemory.write"}

\* C8: write_with_masking over a transfer that lies within the memory, with
\* one mask bit per data byte, returns without an exception and leaves the
\* memory with data byte i at address + i where mask bit i is 0 and with
\* the old byte everywhere else (mask 0,1,0 over AA,BB,CC with data
\* 11,22,33 gives 11,BB,33).
C8_MaskedWrite ==
    (/\ call.op = "write_with_masking"
     /\ Len(call.mask) = Len(call.data)
     /\ call.address + Len(call.data) <= Len(call.pre)) =>
        /\ exc = "none"
        /\ Len(memory) = Len(call.pre)
        /\ \A j \in 1..Len(memory) :
              memory[j] = IF /\ j - call.address \in 1..Len(call.data)
                             /\ call.mask[j - call.address] = 0
                          THEN call.data[j - call.address]
                          ELSE call.pre[j]

\* C9: a write of d at a with a + len(d) within the capacity, followed by
\* a read of len(d) bytes at a, returns d, for MemoryRegion.write/read and
\* for HyperBusMemory.write/read (len(d) = data_width/8); a read leaves
\* the memory as it was.
C9_RoundTrip ==
    [][/\ (/\ call.op \in WriteOps
           /\ call.length = Len(call.data)
           /\ call.address + Len(call.data) <= Len(call.pre)
           /\ nops' = nops + 1
           /\ call'.op \in ReadOps
           /\ call'.address = call.address
           /\ call'.length = Len(call.data)) =>
              (ret' = call.data /\ exc' = "none")
       /\ (nops' = nops + 1 /\ call'.op \in ReadOps) => memory' = memory]_vars

\* a device-level read that returned the four bytes written before it at
\* an address other than 0
C9_Witness ==
    /\ call.op = "HyperBusMemory.read"
    /\ call.address = 1
    /\ ret = <<17, 34, 51, 68>>
    /\ nops = 2

\* C10: MemoryRegion.read and MemoryRegion.write with address + length
\* beyond the capacity raise OutOfRange and leave the memory, and so the
\* capacity, as they were.
C10_OutOfRangeFails ==
    (/\ call.op \in {"MemoryRegion.read", "MemoryRegion.write"}
     /\ call.address + call.length > Len(call.pre)) =>
        (exc = "OutOfRange" /\ memory = call.pre)

-----------------------------------------------------------------------------
(* Properties of CA decoding (under SpecDecode).                           *)

-----------------------------------------------------------------------------
(* Properties of handle_transactions (under SpecTxn).                      *)

\* the transaction that started at the last chip-select falling edge was
\* aborted during CA capture and no other has started since
Aborted == transaction_active = "False" /\ Len(sampled) < 6

\* C1: when chip-select is seen high at a CA sampling edge before six bytes
\* are captured, the CA buffer is empty, neither decode nor a data phase
\* has run, and memory and configuration register are what they were when
\* chip-select was asserted.
C1_AbortDiscards ==
    Aborted =>
        /\ ca_bytes = <<>>
        /\ phases = {}
        /\ memory = snap.memory
        /\ config_register = snap.config_register

\* an abort after three of the six CA bytes
C1_Witness ==
    /\ Aborted
    /\ pc = "wait_cs_rise"
    /\ Len(sampled) = 3

\* C2: after an abort during CA capture the very next chip-select falling
\* edge starts a new CA capture with no byte captured.
C2_NextFallStartsCapture ==
    [][(Aborted /\ o_csn0 = 1 /\ o_csn0' = 0) =>
           (pc' = "ca_rise" /\ ca_bytes' = <<>> /\ sampled' = <<>>
            /\ transaction_active' = "True")]_vars

\* a fully captured read CA
ReadCaptured == Len(sampled) = 6 /\ (sampled[1] \div 128) % 2 = 1

\* bit 45 of the captured CA
Bit45 == (sampled[1] \div 32) % 2

-----------------------------------------------------------------------------
(* Properties of the configuration register (under SpecCfg).               *)

\* C11: after set_register(v) every field is a function of v alone:
\* deep_power_down = bit 15, output_drive_strength = bits 14:12,
\* initial_latency = bits 7:4, fixed_latency = bit 3, burst_length code =
\* bits 2:1, hybrid_wrap = bit 0, whatever the register held before (so the
\* same value applied twice gives the same fields); 0x0431 gives latency 3
\* and hybrid_wrap 1 with every other field 0.
C11_FieldsFromValue ==
    call.op = "set_register" =>
        /\ config_register =
              [deep_power_down |-> (call.value \div 32768) % 2,
               output_drive_strength |-> (call.value \div 4096) % 8,
               initial_latency |-> (call.value \div 16) % 16,
               fixed_latency |-> (call.value \div 8) % 2,
               burst_length |-> (call.value \div 2) % 4,
               hybrid_wrap |-> call.value % 2]
        /\ (call.value = 1073 =>
               config_register =
                  [deep_power_down |-> 0, output_drive_strength |-> 0,
                   initial_latency |-> 3, fixed_latency |-> 0,
                   burst_length |-> 0, hybrid_wrap |-> 1])

\* 0x0431 applied to a register that an earlier call has changed
C11_Witness ==
    /\ call.op = "set_register"
    /\ call.value = 1073
    /\ nops = 2
    /\ call.pre[1].initial_latency = 15
    /\ call.pre[1].deep_power_down = 1
    /\ config_register.initial_latency = 3
    /\ config_register.deep_power_down = 0
    /\ config_register.hybrid_wrap = 1

\* C12: in every reachable state the register's burst_length is one of the
\* transfer-unit counts 16, 32, 64, 128.
C12_BurstLengthIsCount ==
    config_register.burst_length \in {16, 32, 64, 128}

-----------------------------------------------------------------------------
(* More properties of handle_transactions (under SpecTxn).                 *)

\* C13: the step that captures the sixth CA byte starts no data phase:
\* driving read data or sampling write data waits for the latency count.
C13_LatencyBeforeData ==
    [][(Len(sampled) = 5 /\ Len(sampled') = 6) =>
           phases' \cap {"burst", "drive", "write"} = {}]_vars

\* C14: whenever the device waits in Idle for a chip-select falling edge
\* it is not driving the DQ bus.
C14_IdleReleasesDQ ==
    pc = "wait_cs_fall" => dq.state # "driven"

\* C15: a transaction whose decoded address space is Register (0) makes no
\* memory access: no burst read of memory and no masked write to it.
C15_RegisterSpaceBypassesMemory ==
    ("decode" \in phases /\ decoded.as_ = 0) =>
        /\ call.op \notin {"handle_burst", "write_with_masking"}
        /\ addrs = <<>>

\* C16: while chip-select stays asserted memory is not modified and the
\* sampled write data is not handed to write_with_masking: that happens
\* only at the end of the transaction.
C16_CommitAtTransactionEnd ==
    [][(o_csn0 = 0 /\ o_csn0' = 0) =>
           /\ memory' = memory
           /\ ("write" \in phases' => "write" \in phases)]_vars

\* the coroutine is in the CA capture loop
Capturing == pc \in {"ca_rise", "ca_fall"}

\* C17: a CA capture starts only from Idle with transaction_active not
\* true, on a chip-select falling edge, with an empty CA buffer; CA bytes
\* are sampled only inside the one capture in progress.
C17_OneTransactionAtATime ==
    [][/\ (~Capturing /\ Capturing') =>
              /\ pc = "wait_cs_fall"
              /\ transaction_active # "True"
              /\ o_csn0 = 1 /\ o_csn0' = 0
              /\ pc' = "ca_rise"
              /\ ca_bytes' = <<>> /\ sampled' = <<>>
              /\ transaction_active' = "True"
       /\ (Capturing /\ sampled' # sampled) =>
              /\ transaction_active = "True"
              /\ Len(sampled') = Len(sampled) + 1
       /\ (~Capturing /\ ~Capturing') => sampled' = sampled]_vars

\* a second capture starting after a read transaction has ended
C17_Witness ==
    /\ pc = "ca_rise"
    /\ o_csn0 = 0
    /\ sampled = <<>>
    /\ transaction_active = "True"
    /\ dq.state = "driven"

\* C18: once a transaction has captured its CA and chip-select is high the
\* device is in Idle or on its way there, never stopped and never waiting
\* for a chip-select rising edge that has already happened.
C18_ReturnsToIdle ==
    (Len(sampled) = 6 /\ o_csn0 = 1) => pc \in {"wait_cs_fall", "drive", "wr_rise"}

\* C19: the CA buffer holds the bytes sampled so far in capture order, one
\* per clock edge starting with a rising edge, never more than 6 and none
\* in Idle; decode happens with exactly 6 bytes, the first as bits 47:40
\* and the sixth as bits 7:0.
C19_CaptureOrder ==
    /\ Len(ca_bytes) \in 0..6
    /\ Len(sampled) \in 0..6
    /\ (pc = "wait_cs_fall" => ca_bytes = <<>>)
    /\ (pc = "ca_rise" =>
           /\ ca_bytes = sampled
           /\ cycle \in 0..2
           /\ Len(sampled) = 2 * cycle
           /\ (cycle > 0 => ck = 0))
    /\ (pc = "ca_fall" =>
           /\ ca_bytes = sampled
           /\ cycle \in 0..2
           /\ Len(sampled) = 2 * cycle + 1
           /\ ck = 1)
    /\ ("decode" \in phases =>
           /\ Len(sampled) = 6
           /\ decoded.r_w = (sampled[1] \div 128) % 2
           /\ decoded.as_ = (sampled[1] \div 64) % 2
           /\ decoded.burst_type = (sampled[1] \div 32) % 2
           /\ decoded.address =
                  sampled[3] * 65536 + sampled[4] * 256 + sampled[6])
    /\ ("decode" \notin phases => decoded = NoDecode)

\* six different-looking bytes captured and decoded: first byte 0xA0,
\* sixth byte 0x80
C19_Witness ==
    /\ "decode" \in phases
    /\ sampled = <<160, 0, 0, 128, 0, 128>>
    /\ decoded = [address |-> 128 * 256 + 128, r_w |-> 1, as_ |-> 0,
                  burst_type |-> 1]

-----------------------------------------------------------------------------
(* Properties of HyperBusMonitor (under SpecMon).                          *)

\* C20: the transaction log only grows, by one record at a time, appended
\* at the rising edge at which the monitor sees chip-select high after
\* having mon_seen it low; every record in the log has exactly 6 CA-phase
\* samples, and these followed by its data-phase samples are the DQ values
\* of the rising edges of its period; the content of a record already in
\* the log is never changed by a later step.
C20_AppendOnlyLog ==
    [][/\ Len(transactions') \in {Len(transactions), Len(transactions) + 1}
       /\ \A i \in 1..Len(transactions) :
              Deref(heap', transactions'[i]) = Deref(heap, transactions[i])
       /\ \A i \in 1..Len(transactions') :
              Len(heap'[transactions'[i].ca_phase]) = 6
       /\ Len(transactions') = Len(transactions) + 1 =>
              LET t == Deref(heap', transactions'[Len(transactions')])
              IN  /\ clk = 0 /\ clk' = 1
                  /\ CS_ = 1
                  /\ mon_pc \in {"ca", "data"} /\ mon_pc' = "idle"
                  /\ t.ca_phase \o t.data_phase = mon_seen'
                  /\ mon_seen' = Append(mon_seen, DQ)]_vars

\* two logged records with different samples, the second with a data phase,
\* while a third period has started
C20_Witness ==
    /\ Len(transactions) = 2
    /\ Deref(heap, transactions[1]) # Deref(heap, transactions[2])
    /\ Len(heap[transactions[1].ca_phase]) = 6
    /\ Len(heap[transactions[2].data_phase]) >= 1
    /\ heap[transactions[2].ca_phase][1] = 3

====
